---- MODULE Spec2Model ----
(***************************************************************************)
(* X11 cursor management of winit (platform_impl/linux/x11/util/cursor.rs) *)
(* as a state machine: the cursor cache behind its Mutex, the image-backed *)
(* cursor builder, the named-cursor resolver, the applicator and the       *)
(* reference-counted CustomCursor.                                         *)
(***************************************************************************)
EXTENDS Integers, Sequences, FiniteSets, TLC

\* ------------------------------------------------------------------ bounds
NumIcons == 2          \* CursorIcon values 1..NumIcons
NumThreads == 2        \* concurrent callers of set_cursor_icon
MaxAltNames == 2       \* alternate names of the icons get_cursor is applied to on its own
NumWindows == 2        \* windows update_cursor is applied to on its own
NumThemeHandles == 2   \* distinct handles a theme lookup may hand out
NumCustom == 2         \* CustomCursor allocations (Arc<CustomCursorInner>)
MaxRefs == 3           \* clones alive of one CustomCursor
MaxBuilds == 2         \* invocations of the image builder in one behaviour
MaxPixels == 2         \* pixels of a custom cursor image
MaxByte == 1           \* byte values 0..MaxByte of the pixel inputs
MaxFormats == 3        \* advertised formats per list given to find_argb32_format

\* ------------------------------------------------------------ value spaces
\* Option<CursorIcon>: None is 0, Some(icon) is the icon's number.
NoneSel == 0
Icons == 1..NumIcons
Selectors == {NoneSel} \cup Icons
Threads == 1..NumThreads
NoThread == 0

\* CursorIcon::name() / alt_names(): icon i is called i, and falls back to
\* the names i-1, ..., 1 in this order (icon 1 has no alternate name).
name(icon) == icon
alt_names(icon) == [k \in 1..(icon - 1) |-> icon - k]

\* Result<xproto::Cursor, X11Error>, and the panic of an expect()/unwrap().
Ok(h) == [tag |-> "Ok", handle |-> h, err |-> "none"]
Err(e) == [tag |-> "Err", handle |-> 0, err |-> e]
Panic(msg) == [tag |-> "Panic", handle |-> 0, err |-> msg]

\* x11rb resource ids: the theme's handles come first, generate_id() hands
\* out the ids after them, one after the other.
ThemeHandles == 1..NumThemeHandles
FirstId == NumThemeHandles + 1
IdsPerBuild == 4
MaxId == FirstId + IdsPerBuild * MaxBuilds
GeneratedIds == FirstId..MaxId

\* ------------------------------------------------- find_argb32_format
DirectFormat(rs, gs, bs, as, mask) ==
    [red_shift |-> rs, red_mask |-> mask, green_shift |-> gs, green_mask |-> mask,
     blue_shift |-> bs, blue_mask |-> mask, alpha_shift |-> as, alpha_mask |-> mask]

\* The formats a server advertises (render_formats().formats).
Rgb24Format == [id |-> 1, type |-> "DIRECT", depth |-> 24,
                direct |-> DirectFormat(16, 8, 0, 0, 255)]
Argb32Format == [id |-> 2, type |-> "DIRECT", depth |-> 32,
                 direct |-> DirectFormat(16, 8, 0, 24, 255)]
FormatLists == {<<Rgb24Format, Argb32Format>>, <<Rgb24Format>>}

\* A test that looks at the type, the depth and the masks only.
is_argb32_masks_only(format) ==
    /\ format.type = "DIRECT"
    /\ format.depth = 32
    /\ format.direct.red_mask = 255 /\ format.direct.green_mask = 255
    /\ format.direct.blue_mask = 255 /\ format.direct.alpha_mask = 255

is_argb32(format) ==
    /\ format.type = "DIRECT"
    /\ format.depth = 32
    /\ format.direct.red_shift = 16 /\ format.direct.red_mask = 255
    /\ format.direct.green_shift = 8 /\ format.direct.green_mask = 255
    /\ format.direct.blue_shift = 0 /\ format.direct.blue_mask = 255
    /\ format.direct.alpha_shift = 24 /\ format.direct.alpha_mask = 255

\* A lookup that settles for the first format when none matches.
find_argb32_format_lenient(formats) ==
    IF formats = <<>> THEN [found |-> FALSE, id |-> 0]
    ELSE [found |-> TRUE, id |-> formats[1].id]

\* iter().find(..): the first matching format; expect() panics without one.
find_argb32_format(formats) ==
    LET hits == {i \in 1..Len(formats) : is_argb32(formats[i])}
    IN  IF hits = {}
        THEN [found |-> FALSE, id |-> 0]
        ELSE [found |-> TRUE,
              id |-> formats[CHOOSE i \in hits : \A j \in hits : i <= j].id]

\* ------------------------------------------- create_cursor_from_image
\* The places where the connection itself can fail (generate_id, sending a
\* request, waiting for a checked reply), in program order.
FailPoints ==
    {"none", "generate_id(pixmap)", "create_pixmap", "generate_id(gc)",
     "create_gc", "put_image", "generate_id(picture)", "render_create_picture",
     "check(picture)", "generate_id(cursor)", "render_create_cursor",
     "check(cursor)"}
\* The requests the server may answer with a protocol error.
RequestOps ==
    {"create_pixmap", "create_gc", "put_image", "render_create_picture",
     "render_create_cursor"}
\* A request that names a resource the server refused to create is refused
\* too: create_gc, put_image and render_create_picture name the pixmap,
\* put_image names the gc, render_create_cursor names the picture.
ServerConsistent(rejected) ==
    /\ "create_pixmap" \in rejected =>
         {"create_gc", "put_image", "render_create_picture"} \subseteq rejected
    /\ "create_gc" \in rejected => "put_image" \in rejected
    /\ "render_create_picture" \in rejected => "render_create_cursor" \in rejected
BuilderEnvs ==
    [fail : FailPoints, rejected : {r \in SUBSET RequestOps : ServerConsistent(r)},
     formats : FormatLists]

Req(op, id, ref, format, args) ==
    [op |-> op, id |-> id, ref |-> ref, format |-> format, args |-> args]

\* drawn: the number of ids generate_id() handed to the builder.
BuildOut(call, requests, res, drawn) ==
    [call |-> call, requests |-> requests, res |-> res, drawn |-> drawn]

\* A pixmap guard that frees nothing.
pixmap_guard_forgotten(pixmap) == <<>>

\* What the CallOnDrop guards issue when they are dropped.
pixmap_guard(pixmap) == <<Req("free_pixmap", pixmap, 0, "", <<>>)>>

\* A gc guard that frees the id before the gc's.
gc_guard_wrong_id(gc) == <<Req("free_gc", gc - 1, 0, "", <<>>)>>

gc_guard(gc) == <<Req("free_gc", gc, 0, "", <<>>)>>

\* A picture guard that frees nothing.
picture_guard_forgotten(picture) == <<>>

picture_guard(picture) == <<Req("render_free_picture", picture, 0, "", <<>>)>>

\* A check() that does not wait for the reply.
check_not_waiting(id) == <<>>

\* VoidCookie::check(): the caller waits for the reply to the request that
\* created `id`. ignore_error() waits for nothing and leaves no trace.
check(id) == <<Req("check", id, 0, "", <<>>)>>

\* A check() that drops the server's error.
check_never_fails(env, op) == FALSE

\* check() returns the error the server answered the request with.
check_fails(env, op) == op \in env.rejected

\* requests: the requests issued and the replies waited for, in order (a
\* free issued by a guard is listed although its own send result is swallowed
\* by .ok()). ids: what the four generate_id() calls of lines 43, 50, 65 and
\* 75 return, in this order; other callers may draw ids in between.
create_cursor_from_image(width, height, depth, hotspot_x, hotspot_y, image, env, ids) ==
    LET call == [width |-> width, height |-> height, depth |-> depth,
                 hotspot_x |-> hotspot_x, hotspot_y |-> hotspot_y, image |-> image]
        pixmap == ids[1]
        gc == ids[2]
        picture == ids[3]
        cursor == ids[4]
        format == IF depth = 1 THEN "XY_PIXMAP" ELSE "Z_PIXMAP"
        pictformat == find_argb32_format(env.formats)
        create_pixmap == <<Req("create_pixmap", pixmap, 0, "", <<depth, width, height>>)>>
        create_gc == <<Req("create_gc", gc, pixmap, "", <<>>)>>
        put_image == <<Req("put_image", pixmap, gc, format,
                           <<width, height, depth>> \o image)>>
        create_picture == <<Req("render_create_picture", picture, pixmap, "",
                                <<pictformat.id>>)>>
        create_cursor == <<Req("render_create_cursor", cursor, picture, "",
                               <<hotspot_x, hotspot_y>>)>>
        \* lines 43-62: everything up to drop(gc_guard)
        uploaded == create_pixmap \o create_gc \o put_image \o gc_guard(gc)
        \* lines 43-72: everything up to drop(pixmap_guard)
        pictured == uploaded \o create_picture \o check(picture) \o pixmap_guard(pixmap)
    IN
    IF env.fail = "generate_id(pixmap)"
    THEN BuildOut(call, <<>>, Err("IdsExhausted"), 0)
    ELSE IF env.fail = "create_pixmap"
    THEN BuildOut(call, <<>>, Err("ConnectionError"), 1)
    \* pixmap_guard is armed from here on
    ELSE IF env.fail = "generate_id(gc)"
    THEN BuildOut(call, create_pixmap \o pixmap_guard(pixmap), Err("IdsExhausted"), 1)
    ELSE IF env.fail = "create_gc"
    THEN BuildOut(call, create_pixmap \o pixmap_guard(pixmap),
                  Err("ConnectionError"), 2)
    \* gc_guard is armed from here on; locals drop in reverse declaration order
    ELSE IF env.fail = "put_image"
    THEN BuildOut(call, create_pixmap \o create_gc \o gc_guard(gc) \o pixmap_guard(pixmap),
                  Err("ConnectionError"), 2)
    \* drop(gc_guard)
    ELSE IF env.fail = "generate_id(picture)"
    THEN BuildOut(call, uploaded \o pixmap_guard(pixmap), Err("IdsExhausted"), 2)
    ELSE IF ~pictformat.found
    THEN BuildOut(call, uploaded \o pixmap_guard(pixmap),
                  Panic("unable to find ARGB32 xrender format"), 3)
    ELSE IF env.fail = "render_create_picture"
    THEN BuildOut(call, uploaded \o pixmap_guard(pixmap), Err("ConnectionError"), 3)
    ELSE IF env.fail = "check(picture)"
    THEN BuildOut(call, uploaded \o create_picture \o check(picture) \o pixmap_guard(pixmap),
                  Err("ConnectionError"), 3)
    ELSE IF check_fails(env, "render_create_picture")
    THEN BuildOut(call, uploaded \o create_picture \o check(picture) \o pixmap_guard(pixmap),
                  Err("X11Error"), 3)
    \* _picture_guard is armed from here on; drop(pixmap_guard)
    ELSE IF env.fail = "generate_id(cursor)"
    THEN BuildOut(call, pictured \o picture_guard(picture), Err("IdsExhausted"), 3)
    ELSE IF env.fail = "render_create_cursor"
    THEN BuildOut(call, pictured \o picture_guard(picture), Err("ConnectionError"), 4)
    ELSE IF env.fail = "check(cursor)"
    THEN BuildOut(call, pictured \o create_cursor \o check(cursor) \o picture_guard(picture),
                  Err("ConnectionError"), 4)
    ELSE IF check_fails(env, "render_create_cursor")
    THEN BuildOut(call, pictured \o create_cursor \o check(cursor) \o picture_guard(picture),
                  Err("X11Error"), 4)
    ELSE BuildOut(call, pictured \o create_cursor \o check(cursor) \o picture_guard(picture),
                  Ok(cursor), 4)

\* An empty cursor with an opaque pixel.
create_empty_cursor_opaque(env, ids) ==
    create_cursor_from_image(1, 1, 32, 0, 0, <<0, 0, 0, 255>>, env, ids)

create_empty_cursor(env, ids) ==
    create_cursor_from_image(1, 1, 32, 0, 0, <<0, 0, 0, 0>>, env, ids)

\* ------------------------------------------------------------ get_cursor
\* What the theme collaborator answers during one get_cursor call:
\* Handle::new(..)?.reply()? and, per name, handle.load_cursor(conn, name).
LoadErrors == {"ConnectionError", "X11Error"}
LoadResults == {Ok(h) : h \in ThemeHandles} \cup {Err(e) : e \in LoadErrors}

\* The alternates alone, without the canonical name.
candidate_names_alternates_only(icon) == alt_names(icon)

\* The alternates tried before the canonical name.
candidate_names_alternates_first(icon) == alt_names(icon) \o <<name(icon)>>

\* iter::once(&cursor.name()).chain(cursor.alt_names().iter())
candidate_names(icon) == <<name(icon)>> \o alt_names(icon)

\* The theme answers for the names of the selector asked for.
NamesOf(s) == IF s = NoneSel THEN {} ELSE {name(s)} \cup {alt_names(s)[k] : k \in 1..(s - 1)}
ThemeEnvsFor(s) == [handle_ok : BOOLEAN, lookup : [NamesOf(s) -> LoadResults]]

\* A loop that keeps the first error instead of the last.
RECURSIVE load_loop_first_error(_, _, _, _)
load_loop_first_error(names, lookup, attempts, last_error) ==
    IF names = <<>>
    THEN [attempts |-> attempts,
          res |-> IF last_error = "None"
                  THEN Panic("called Option::unwrap() on a None value")
                  ELSE Err(last_error)]
    ELSE LET r == lookup[Head(names)]
         IN  IF r.tag = "Ok"
             THEN [attempts |-> Append(attempts, Head(names)), res |-> Ok(r.handle)]
             ELSE load_loop_first_error(Tail(names), lookup, Append(attempts, Head(names)),
                                        IF last_error = "None" THEN r.err ELSE last_error)

\* The for loop of get_cursor: attempts are the names handed to load_cursor
\* so far, last_error is "None" until a lookup has failed.
RECURSIVE load_loop(_, _, _, _)
load_loop(names, lookup, attempts, last_error) ==
    IF names = <<>>
    THEN [attempts |-> attempts,
          res |-> IF last_error = "None"
                  THEN Panic("called Option::unwrap() on a None value")
                  ELSE Err(last_error)]
    ELSE LET r == lookup[Head(names)]
         IN  IF r.tag = "Ok"
             THEN [attempts |-> Append(attempts, Head(names)), res |-> Ok(r.handle)]
             ELSE load_loop(Tail(names), lookup, Append(attempts, Head(names)), r.err)

GetOut(handle_new, attempts, builds, res, drawn) ==
    [handle_new |-> handle_new, attempts |-> attempts, builds |-> builds,
     res |-> res, drawn |-> drawn]

\* handle_new: whether a theme-lookup handle was constructed; attempts: the
\* names looked up, in order; builds: the image-builder invocations made.
get_cursor(cursor, tenv, benv, ids) ==
    IF cursor = NoneSel
    THEN LET b == create_empty_cursor(benv, ids)
         IN  GetOut(FALSE, <<>>, <<b>>, b.res, b.drawn)
    ELSE IF ~tenv.handle_ok
    THEN GetOut(TRUE, <<>>, <<>>, Err("ConnectionError"), 0)
    ELSE LET l == load_loop(candidate_names(cursor), tenv.lookup, <<>>, "None")
         IN  GetOut(TRUE, l.attempts, <<>>, l.res, 0)

\* --------------------------------------------------------- update_cursor
\* send_fail: change_window_attributes cannot be sent; attr_error: the server
\* answers it with an error; flush_fail: flush() fails.
UpdateEnvs == [send_fail : BOOLEAN, attr_error : BOOLEAN, flush_fail : BOOLEAN]

\* An applicator that checks the reply of change_window_attributes.
update_cursor_checked(window, cursor, env) ==
    IF env.send_fail
    THEN [calls |-> <<>>, res |-> Err("ConnectionError")]
    ELSE IF env.attr_error
    THEN [calls |-> <<"change_window_attributes">>, res |-> Err("X11Error")]
    ELSE IF env.flush_fail
    THEN [calls |-> <<"change_window_attributes", "flush">>,
          res |-> Err("ConnectionError")]
    ELSE [calls |-> <<"change_window_attributes", "flush">>, res |-> Ok(0)]

update_cursor(window, cursor, env) ==
    IF env.send_fail
    THEN [calls |-> <<>>, res |-> Err("ConnectionError")]
    ELSE IF env.flush_fail
    THEN [calls |-> <<"change_window_attributes", "flush">>,
          res |-> Err("ConnectionError")]
    ELSE [calls |-> <<"change_window_attributes", "flush">>, res |-> Ok(0)]

\* ------------------------------------------------------ CustomCursor::new
Min(a, b) == IF a <= b THEN a ELSE b

\* A reversal of the whole chunk, alpha included.
reverse_chunk_whole(chunk) == [i \in 1..Len(chunk) |-> chunk[Len(chunk) + 1 - i]]

\* chunk[0..3].reverse() on one chunk of chunks_mut(4); a chunk shorter than
\* three bytes makes the slice index panic.
reverse_chunk(chunk) ==
    [i \in 1..Len(chunk) |-> IF i <= 3 THEN chunk[4 - i] ELSE chunk[i]]

RECURSIVE reverse_rgba(_)
reverse_rgba(rgba) ==
    IF rgba = <<>>
    THEN [panic |-> FALSE, rgba |-> <<>>]
    ELSE LET n == Min(4, Len(rgba))
             rest == reverse_rgba(SubSeq(rgba, n + 1, Len(rgba)))
         IN  IF n < 3
             THEN [panic |-> TRUE, rgba |-> <<>>]
             ELSE [panic |-> rest.panic,
                   rgba |-> reverse_chunk(SubSeq(rgba, 1, n)) \o rest.rgba]

\* PlatformCustomCursorSource: width x height pixels of four bytes each.
Bytes == 0..MaxByte
Sources ==
    UNION {[width : {w}, height : {1}, hotspot_x : {0}, hotspot_y : {0},
            rgba : [1..(4 * w) -> Bytes]] : w \in 1..MaxPixels}

\* builds: the image-builder invocations made; res: Ok(cursor), the panic of
\* expect("failed to create a custom cursor") on the builder's error, or the
\* panic that left the builder before it returned.
CustomCursor_new(source, env, ids) ==
    LET bgra == reverse_rgba(source.rgba)
        b == create_cursor_from_image(source.width, source.height, 32,
                                      source.hotspot_x, source.hotspot_y,
                                      bgra.rgba, env, ids)
    IN  IF bgra.panic
        THEN [builds |-> <<>>, res |-> Panic("range end index 3 out of range"),
              drawn |-> 0]
        ELSE [builds |-> <<b>>,
              res |-> IF b.res.tag = "Err"
                      THEN Panic("failed to create a custom cursor")
                      ELSE b.res,
              drawn |-> b.drawn]

\* ------------------------------------------------------------------ state
VARIABLES
    cursor_cache,     \* HashMap<Option<CursorIcon>, Cursor>: selector -> handle
    lock_holder,      \* the caller holding the cursor_cache Mutex, or NoThread
    poisoned,         \* the Mutex was held by a caller that panicked
    pc,               \* where each caller of set_cursor_icon stands
    sel,              \* its selector argument
    cur,              \* its local `cursor` (line 17), 0 before it is bound
    nextId,           \* the id the next generate_id() returns
    drawn,            \* the ids a builder in progress has drawn: per caller, per custom cursor
    customs,          \* Arc<CustomCursorInner>: cursor handle, strong count (and its peak)
    free_cursor_requests, \* the handles of the free_cursor requests issued
    setting,          \* per custom cursor: a set_custom_cursor call stands before its flush()
    get_calls,        \* history: get_cursor invocations per selector
    obtained,         \* history: the handles the resolutions of a selector gave
    realized,         \* history: what get_cursor returned for a selector
    call              \* the last application of a function checked on its own

vars == <<cursor_cache, lock_holder, poisoned, pc, sel, cur, nextId, drawn, customs,
          free_cursor_requests, setting, get_calls, obtained, realized,
          call>>

CustomIds == 1..NumCustom
NoCall == [fn |-> "none"]

Init ==
    /\ cursor_cache = <<>>
    /\ lock_holder = NoThread
    /\ poisoned = FALSE
    /\ pc = [t \in Threads |-> "idle"]
    /\ sel = [t \in Threads |-> NoneSel]
    /\ cur = [t \in Threads |-> 0]
    /\ nextId = FirstId
    /\ drawn = [caller |-> [t \in Threads |-> <<>>], custom |-> [c \in CustomIds |-> <<>>]]
    /\ customs = [c \in CustomIds |-> [cursor |-> 0, strong |-> 0, peak |-> 0]]
    /\ free_cursor_requests = <<>>
    /\ setting = [c \in CustomIds |-> FALSE]
    /\ get_calls = [s \in Selectors |-> 0]
    /\ obtained = [s \in Selectors |-> {}]
    /\ realized = <<>>
    /\ call = NoCall

\* ------------------------------------------------ the cache and its Mutex
\* A lock that lets every caller in.
lock_always_available(holder) == TRUE

\* Mutex::lock() blocks while another caller holds the guard.
lock_available(holder) == holder = NoThread

\* An entry lookup that never finds the key.
is_vacant_always(cache, key) == TRUE

\* HashMap::entry(key): Vacant or Occupied.
is_vacant(cache, key) == key \notin DOMAIN cache

\* An insertion that memoizes a failure as the null handle.
or_insert_with_memoizing(cache, key, res) ==
    [k \in DOMAIN cache \cup {key} |->
       IF k = key THEN (IF res.tag = "Ok" THEN res.handle ELSE 0) ELSE cache[k]]

\* An insertion that hands a new key the handle of an entry already there.
or_insert_with_reuse(cache, key, res) ==
    IF res.tag = "Ok"
    THEN [k \in DOMAIN cache \cup {key} |->
            IF k # key THEN cache[k]
            ELSE IF DOMAIN cache = {} THEN res.handle
            ELSE cache[CHOOSE x \in DOMAIN cache : TRUE]]
    ELSE cache

\* Entry::or_insert_with(f) on a vacant entry: the value is inserted once f
\* has returned; when f panics (the expect on get_cursor's error) nothing is.
\* A cache that holds the latest entry only.
or_insert_with_evicting(cache, key, res) ==
    IF res.tag = "Ok" THEN [k \in {key} |-> res.handle] ELSE cache

or_insert_with(cache, key, res) ==
    IF res.tag = "Ok"
    THEN [k \in DOMAIN cache \cup {key} |-> IF k = key THEN res.handle ELSE cache[k]]
    ELSE cache

\* Result::expect: anything but Ok aborts the caller.
expect_aborts(res) == res.tag # "Ok"

\* get_cursor consults the builder for the absent selector only; for a named
\* one the builder's environment is left at its default.
QuietEnv == [fail |-> "none", rejected |-> {}, formats |-> <<Rgb24Format, Argb32Format>>]
\* The environments the builder meets inside the state machine: one for
\* every way out of the builder (each result, each number of ids drawn).
MainEnvs ==
    {[QuietEnv EXCEPT !.fail = f] :
       f \in {"none", "generate_id(pixmap)", "create_pixmap", "put_image",
              "check(picture)", "check(cursor)"}}
    \cup {[QuietEnv EXCEPT !.rejected = {"render_create_cursor"}],
          [QuietEnv EXCEPT !.formats = <<Rgb24Format>>]}
\* The theme answers the state machine meets, one for every result of
\* get_cursor for a named selector: no theme handle, every lookup failing,
\* the canonical name found with each handle.
MainThemeEnvsFor(s) ==
    {tenv \in ThemeEnvsFor(s) :
       \/ ~tenv.handle_ok /\ \A n \in NamesOf(s) : tenv.lookup[n] = Err("X11Error")
       \/ tenv.handle_ok /\ \A n \in NamesOf(s) : tenv.lookup[n] = Err("X11Error")
       \/ tenv.handle_ok /\ \A n \in NamesOf(s) : tenv.lookup[n] = tenv.lookup[name(s)]
                          /\ tenv.lookup[name(s)].tag = "Ok"}
MainEnvsFor(s) == IF s = NoneSel THEN MainEnvs ELSE {QuietEnv}

Returned == {"idle", "panic_lock", "panic_get", "panic_update"}

\* set_cursor_icon, lines 17-20: cursor_cache.lock().unwrap(). A poisoned
\* Mutex makes lock() return Err and unwrap() panic; the guard inside the
\* error is dropped at once.
Lock(t, s) ==
    /\ pc[t] \in Returned
    /\ lock_available(lock_holder)
    /\ IF poisoned
       THEN /\ pc' = [pc EXCEPT ![t] = "panic_lock"]
            /\ UNCHANGED <<lock_holder, sel>>
       ELSE /\ pc' = [pc EXCEPT ![t] = "locked"]
            /\ lock_holder' = t
            /\ sel' = [sel EXCEPT ![t] = s]
    /\ UNCHANGED <<cursor_cache, poisoned, cur, nextId, drawn, customs, free_cursor_requests,
                   setting, get_calls, obtained, realized, call>>

\* line 21-22: .entry(cursor); an occupied entry is read and the guard dropped
\* at the end of the let statement, a vacant one starts get_cursor.
Entry(t) ==
    /\ pc[t] = "locked"
    /\ IF is_vacant(cursor_cache, sel[t])
       THEN /\ pc' = [pc EXCEPT ![t] = "realizing"]
            /\ get_calls' = [get_calls EXCEPT ![sel[t]] = @ + 1]
            /\ UNCHANGED <<lock_holder, cur, obtained>>
       ELSE /\ pc' = [pc EXCEPT ![t] = "update"]
            /\ cur' = [cur EXCEPT ![t] = cursor_cache[sel[t]]]
            /\ obtained' = [obtained EXCEPT ![sel[t]] = @ \cup {cursor_cache[sel[t]]}]
            /\ lock_holder' = NoThread
            /\ UNCHANGED get_calls
    /\ UNCHANGED <<cursor_cache, poisoned, sel, nextId, drawn, customs, free_cursor_requests,
                   setting, realized, call>>

\* The ids drawn so far, filled up to the four the builder may draw.
Pad(ids) == [k \in 1..IdsPerBuild |-> IF k <= Len(ids) THEN ids[k] ELSE 0]

\* generate_id() inside the get_cursor(None) of caller t (lines 43, 50, 65,
\* 75): one id of the connection, which the callers and CustomCursor::new
\* share without a lock.
GenerateId(t) ==
    /\ pc[t] = "realizing"
    /\ sel[t] = NoneSel
    /\ Len(drawn.caller[t]) < IdsPerBuild
    /\ nextId < MaxId
    /\ drawn' = [drawn EXCEPT !.caller[t] = Append(@, nextId)]
    /\ nextId' = nextId + 1
    /\ UNCHANGED <<cursor_cache, lock_holder, poisoned, pc, sel, cur, customs,
                   free_cursor_requests, setting, get_calls, obtained, realized,
                   call>>

\* line 22: get_cursor(cursor).expect(..) inside or_insert_with, under the
\* guard: the return of get_cursor, in an environment under which it drew
\* the ids it has drawn. A panic unwinds through the guard, which poisons
\* the Mutex.
Realize(t) ==
    /\ pc[t] = "realizing"
    /\ \E tenv \in MainThemeEnvsFor(sel[t]), benv \in MainEnvsFor(sel[t]) :
         LET g == get_cursor(sel[t], tenv, benv, Pad(drawn.caller[t]))
         IN  /\ g.drawn = Len(drawn.caller[t])
             /\ cursor_cache' = or_insert_with(cursor_cache, sel[t], g.res)
             /\ drawn' = [drawn EXCEPT !.caller[t] = <<>>]
             /\ lock_holder' = NoThread
             /\ IF expect_aborts(g.res)
                THEN /\ poisoned' = TRUE
                     /\ pc' = [pc EXCEPT ![t] = "panic_get"]
                     /\ sel' = [sel EXCEPT ![t] = NoneSel]
                     /\ UNCHANGED <<cur, obtained, realized>>
                ELSE /\ pc' = [pc EXCEPT ![t] = "update"]
                     /\ cur' = [cur EXCEPT ![t] = cursor_cache'[sel[t]]]
                     /\ obtained' = [obtained EXCEPT ![sel[t]] = @ \cup {cursor_cache'[sel[t]]}]
                     /\ realized' = [k \in DOMAIN realized \cup {sel[t]} |->
                                       IF k = sel[t] THEN g.res.handle ELSE realized[k]]
                     /\ UNCHANGED <<poisoned, sel>>
    /\ UNCHANGED <<nextId, customs, free_cursor_requests, setting, get_calls,
                   call>>

\* The state machine follows one window.
TheWindow == 1

\* What an update_cursor call by set_cursor_icon or set_custom_cursor gives.
Applied(by, window, cursor, env) ==
    LET u == update_cursor(window, cursor, env)
    IN  [by |-> by, env |-> env, calls |-> u.calls, tag |-> u.res.tag,
         aborted |-> expect_aborts(u.res)]

\* line 24, update_cursor lines 140-145: change_window_attributes(..)?, the
\* guard released. The request is handed to the connection; what it does
\* to the window is the server's state, not the program's. A send error
\* aborts the caller at the expect of line 24.
ChangeWindowAttributes(t) ==
    /\ pc[t] = "update"
    /\ \E env \in UpdateEnvs :
         LET a == Applied("set_cursor_icon", TheWindow, cur[t], env)
         IN  /\ ~env.flush_fail
             /\ IF a.calls = <<>>
                THEN /\ pc' = [pc EXCEPT ![t] = "panic_update"]
                     /\ sel' = [sel EXCEPT ![t] = NoneSel]
                     /\ cur' = [cur EXCEPT ![t] = 0]
                ELSE /\ pc' = [pc EXCEPT ![t] = "flush"]
                     /\ UNCHANGED <<sel, cur>>
    /\ UNCHANGED <<cursor_cache, lock_holder, poisoned, nextId, drawn, customs,
                   free_cursor_requests, setting, get_calls, obtained, realized, call>>

\* line 24, update_cursor line 147: flush()?. A flush that fails aborts the
\* caller.
Flush(t) ==
    /\ pc[t] = "flush"
    /\ \E env \in UpdateEnvs :
         LET a == Applied("set_cursor_icon", TheWindow, cur[t], env)
         IN  /\ ~env.send_fail /\ ~env.attr_error
             /\ pc' = [pc EXCEPT ![t] = IF a.aborted THEN "panic_update" ELSE "idle"]
    /\ sel' = [sel EXCEPT ![t] = NoneSel]
    /\ cur' = [cur EXCEPT ![t] = 0]
    /\ UNCHANGED <<cursor_cache, lock_holder, poisoned, nextId, drawn, customs,
                   free_cursor_requests, setting, get_calls, obtained, realized, call>>

\* ------------------------------------------------------------ CustomCursor
\* One image per width is enough for the state machine: the pixels do not
\* reach its state.
MainSources ==
    {[width |-> w, height |-> 1, hotspot_x |-> 0, hotspot_y |-> 0,
      rgba |-> [i \in 1..(4 * w) |-> i % (MaxByte + 1)]] : w \in 1..MaxPixels}

\* CustomCursor::new is handed the &ActiveEventLoop (line 179) and runs on
\* the thread of the event loop: one call at a time, next to the callers of
\* set_cursor_icon.
event_loop_free(c) == \A d \in CustomIds \ {c} : drawn.custom[d] = <<>>

\* generate_id() inside the builder that CustomCursor::new runs for custom
\* cursor c, with no lock held.
NewGenerateId(c) ==
    /\ customs[c].cursor = 0
    /\ event_loop_free(c)
    /\ Len(drawn.custom[c]) < IdsPerBuild
    /\ nextId < MaxId
    /\ drawn' = [drawn EXCEPT !.custom[c] = Append(@, nextId)]
    /\ nextId' = nextId + 1
    /\ UNCHANGED <<cursor_cache, lock_holder, poisoned, pc, sel, cur, customs,
                   free_cursor_requests, setting, get_calls, obtained, realized,
                   call>>

\* CustomCursor::new, lines 178-200, at its return: the Arc is created with
\* one strong reference when the builder succeeded, otherwise the caller
\* aborts.
New(c) ==
    /\ customs[c].cursor = 0
    /\ event_loop_free(c)
    /\ \E source \in MainSources, env \in MainEnvs :
         LET n == CustomCursor_new(source, env, Pad(drawn.custom[c]))
         IN  /\ n.drawn = Len(drawn.custom[c])
             /\ drawn' = [drawn EXCEPT !.custom[c] = <<>>]
             /\ customs' = IF expect_aborts(n.res) THEN customs
                           ELSE [customs EXCEPT ![c] = [cursor |-> n.res.handle, strong |-> 1,
                                                          peak |-> 1]]
    /\ UNCHANGED <<cursor_cache, lock_holder, poisoned, pc, sel, cur, nextId,
                   free_cursor_requests, setting, get_calls, obtained, realized,
                   call>>

\* #[derive(Clone)] on CustomCursor: Arc::clone.
Clone(c) ==
    /\ customs[c].strong >= 1
    /\ customs[c].strong < MaxRefs
    /\ customs' = [customs EXCEPT ![c].strong = @ + 1,
                                  ![c].peak = IF customs[c].strong + 1 > @
                                              THEN customs[c].strong + 1 ELSE @]
    /\ UNCHANGED <<cursor_cache, lock_holder, poisoned, pc, sel, cur, nextId, drawn,
                   free_cursor_requests, setting, get_calls, obtained, realized,
                   call>>

\* A drop that releases the cursor with every clone.
drop_runs_always(strong) == TRUE

\* Arc runs CustomCursorInner::drop when the strong count falls from 1 to 0.
drop_runs_inner(strong) == strong = 1

\* Dropping one CustomCursor; CustomCursorInner::drop (lines 209-213) issues
\* free_cursor and swallows its result.
Drop(c) ==
    /\ customs[c].strong >= 1
    \* set_custom_cursor borrows a CustomCursor until it returns
    /\ setting[c] => customs[c].strong > 1
    /\ customs' = [customs EXCEPT ![c].strong = @ - 1]
    /\ free_cursor_requests' =
         IF drop_runs_inner(customs[c].strong)
         THEN Append(free_cursor_requests, customs[c].cursor)
         ELSE free_cursor_requests
    /\ UNCHANGED <<cursor_cache, lock_holder, poisoned, pc, sel, cur, nextId, drawn,
                   setting, get_calls, obtained, realized, call>>

\* set_custom_cursor, lines 27-29, update_cursor lines 140-145:
\* change_window_attributes(..)? for the cursor of a live CustomCursor. A
\* send error aborts the caller at the expect of line 28.
SetCustomCursor(c) ==
    /\ customs[c].strong >= 1
    /\ ~setting[c]
    /\ \E env \in UpdateEnvs :
         LET a == Applied("set_custom_cursor", TheWindow, customs[c].cursor, env)
         IN  /\ ~env.flush_fail
             /\ setting' = [setting EXCEPT ![c] = a.calls # <<>>]
    /\ UNCHANGED <<cursor_cache, lock_holder, poisoned, pc, sel, cur, nextId, drawn, customs,
                   free_cursor_requests, get_calls, obtained, realized, call>>

\* set_custom_cursor, update_cursor line 147: flush()?, after which the call
\* returns or aborts at the expect of line 28.
SetCustomCursorFlush(c) ==
    /\ setting[c]
    /\ setting' = [setting EXCEPT ![c] = FALSE]
    /\ UNCHANGED <<cursor_cache, lock_holder, poisoned, pc, sel, cur, nextId, drawn, customs,
                   free_cursor_requests, get_calls, obtained, realized, call>>

\* set_cursor_icon, step by step, for every caller.
NextCache ==
    \/ \E t \in Threads, s \in Selectors : Lock(t, s)
    \/ \E t \in Threads : Entry(t)
    \/ \E t \in Threads : GenerateId(t)
    \/ \E t \in Threads : Realize(t)
    \/ \E t \in Threads : ChangeWindowAttributes(t)
    \/ \E t \in Threads : Flush(t)

\* The life of the custom cursors.
NextCustom ==
    \/ \E c \in CustomIds : NewGenerateId(c)
    \/ \E c \in CustomIds : New(c)
    \/ \E c \in CustomIds : Clone(c)
    \/ \E c \in CustomIds : Drop(c)
    \/ \E c \in CustomIds : SetCustomCursor(c)
    \/ \E c \in CustomIds : SetCustomCursorFlush(c)

Next == NextCache \/ NextCustom

Spec == Init /\ [][Next]_vars
SpecCache == Init /\ [][NextCache]_vars
SpecCustom == Init /\ [][NextCustom]_vars

\* ------------------------------------- functions applied on their own
\* Each of these specifications applies one function to every input of a
\* bounded set and keeps the input and the output in `call`.
machine == <<cursor_cache, lock_holder, poisoned, pc, sel, cur, nextId, drawn, customs,
             free_cursor_requests, setting, get_calls, obtained, realized>>

\* get_cursor, lines 110-133.
\* The ids of a builder that runs alone on a fresh connection.
FreshIds == [k \in 1..IdsPerBuild |-> FirstId + k - 1]
GetIcons == 1..(MaxAltNames + 1)
GetCursor ==
    /\ call = NoCall
    /\ \E cursor \in {NoneSel} \cup GetIcons :
         \E tenv \in ThemeEnvsFor(cursor),
            benv \in IF cursor = NoneSel THEN BuilderEnvs ELSE {QuietEnv} :
           call' = [fn |-> "get_cursor", cursor |-> cursor, tenv |-> tenv, benv |-> benv,
                    out |-> get_cursor(cursor, tenv, benv, FreshIds)]
    /\ UNCHANGED machine

SpecGet == Init /\ [][GetCursor]_vars

\* CustomCursor::new, lines 178-200.
NewEnvs == {QuietEnv, [QuietEnv EXCEPT !.fail = "check(cursor)"]}
NewCustomCursor ==
    /\ call = NoCall
    /\ \E source \in Sources, env \in NewEnvs :
         call' = [fn |-> "CustomCursor::new", source |-> source, env |-> env,
                  out |-> CustomCursor_new(source, env, FreshIds)]
    /\ UNCHANGED machine

SpecNew == Init /\ [][NewCustomCursor]_vars

\* update_cursor as set_cursor_icon (line 24) and set_custom_cursor (line 28)
\* call it.
Windows == 1..NumWindows
Handles == ThemeHandles \cup GeneratedIds
ApplyNamed ==
    /\ call = NoCall
    /\ \E window \in Windows, cursor \in Handles, env \in UpdateEnvs :
         call' = [fn |-> "set_cursor_icon", window |-> window, cursor |-> cursor,
                  out |-> Applied("set_cursor_icon", window, cursor, env)]
    /\ UNCHANGED machine

ApplyCustom ==
    /\ call = NoCall
    /\ \E window \in Windows, cursor \in GeneratedIds, env \in UpdateEnvs :
         call' = [fn |-> "set_custom_cursor", window |-> window, cursor |-> cursor,
                  out |-> Applied("set_custom_cursor", window, cursor, env)]
    /\ UNCHANGED machine

NextApply == ApplyNamed \/ ApplyCustom
SpecApply == Init /\ [][NextApply]_vars

\* create_cursor_from_image, lines 32-81.
BuildInputs ==
    [width : 1..MaxPixels, height : {1}, depth : {1, 32}, hotspot_x : {0}, hotspot_y : {0}]
BuildImage(width) == [i \in 1..(4 * width) |-> i % (MaxByte + 1)]
BuildCursor ==
    /\ call = NoCall
    /\ \E in \in BuildInputs, env \in BuilderEnvs :
         call' = [fn |-> "create_cursor_from_image", in |-> in, env |-> env,
                  out |-> create_cursor_from_image(in.width, in.height, in.depth,
                                                   in.hotspot_x, in.hotspot_y,
                                                   BuildImage(in.width), env, FreshIds)]
    /\ UNCHANGED machine

SpecBuild == Init /\ [][BuildCursor]_vars

\* find_argb32_format, lines 84-104, on the lists a server may advertise:
\* the ARGB32 format, RGB24, an indexed depth-32 format, BGRA32, a depth-32
\* format without alpha (XRGB32) and a 30-bit format with 10-bit masks.
FormatKinds ==
    {[type |-> "DIRECT", depth |-> 32, direct |-> DirectFormat(16, 8, 0, 24, 255)],
     [type |-> "DIRECT", depth |-> 24, direct |-> DirectFormat(16, 8, 0, 0, 255)],
     [type |-> "INDEXED", depth |-> 32, direct |-> DirectFormat(16, 8, 0, 24, 255)],
     [type |-> "DIRECT", depth |-> 32, direct |-> DirectFormat(0, 8, 16, 24, 255)],
     [type |-> "DIRECT", depth |-> 32,
      direct |-> [DirectFormat(16, 8, 0, 0, 255) EXCEPT !.alpha_mask = 0]],
     [type |-> "DIRECT", depth |-> 32, direct |-> DirectFormat(20, 10, 0, 30, 1023)]}
\* The formats of a list carry distinct ids, none equal to its position.
Advertised(kinds) ==
    [i \in 1..Len(kinds) |->
       [id |-> Len(kinds) + i, type |-> kinds[i].type, depth |-> kinds[i].depth,
        direct |-> kinds[i].direct]]
AdvertisedLists == {Advertised(kinds) : kinds \in UNION {[1..n -> FormatKinds] : n \in 0..MaxFormats}}
FindFormat ==
    /\ call = NoCall
    /\ \E formats \in AdvertisedLists :
         call' = [fn |-> "find_argb32_format", formats |-> formats,
                  out |-> find_argb32_format(formats)]
    /\ UNCHANGED machine

SpecFormat == Init /\ [][FindFormat]_vars

\* set_cursor_icon by one caller next to the life of one custom cursor: the
\* cache and the custom cursors draw their ids from the same connection.
TheCaller == 1
TheCustom == 1
\* The absent selector, whose cursor is built, and the icons that have one
\* name, whose cursor comes from the theme.
SharedSelectors == {NoneSel} \cup {i \in Icons : alt_names(i) = <<>>}
NextShared ==
    \/ \E s \in SharedSelectors : Lock(TheCaller, s)
    \/ Entry(TheCaller)
    \/ GenerateId(TheCaller)
    \/ Realize(TheCaller)
    \/ ChangeWindowAttributes(TheCaller)
    \/ Flush(TheCaller)
    \/ NewGenerateId(TheCustom)
    \/ New(TheCustom)
    \/ Clone(TheCustom)
    \/ Drop(TheCustom)
    \/ SetCustomCursor(TheCustom)
    \/ SetCustomCursorFlush(TheCustom)

SpecShared == Init /\ [][NextShared]_vars

\* ================================================================ claims

\* C1: while no realization has failed, get_cursor was invoked at most once
\* for each selector, and every resolution of the selector gave the same
\* handle, the cached one.
C1_CacheIdempotence ==
    ~poisoned =>
      \A s \in Selectors :
        /\ get_calls[s] <= 1
        /\ Cardinality(obtained[s]) <= 1
        /\ obtained[s] # {} => (s \in DOMAIN cursor_cache /\ obtained[s] = {cursor_cache[s]})

\* Two callers have resolved the same selector after a single get_cursor call.
C1_Witness ==
    \E t1, t2 \in Threads :
      /\ t1 # t2
      /\ pc[t1] = "update" /\ pc[t2] = "update"
      /\ sel[t1] = sel[t2] /\ cur[t1] = cur[t2]
      /\ get_calls[sel[t1]] = 1

\* C2: a set_cursor_icon call made after a call that aborted in get_cursor is
\* not aborted because of that failure: no caller panics while acquiring the
\* cache.
C2_RetryNotBlocked == \A t \in Threads : pc[t] # "panic_lock"

\* C3: a call that aborts because get_cursor failed leaves the cache mapping
\* exactly as it was.
C3_FailureNotMemoized ==
    [][\A t \in Threads :
         (pc[t] = "realizing" /\ pc'[t] = "panic_get") => cursor_cache' = cursor_cache]_vars

\* A realization has failed while the cache already held an entry.
C3_Witness ==
    \E t \in Threads : pc[t] = "panic_get" /\ DOMAIN cursor_cache # {}

\* C4: no free_cursor request for a custom cursor's handle while a clone is
\* alive, exactly one once the last clone is dropped.
C4_RefCountedRelease ==
    \A c \in CustomIds :
      customs[c].cursor # 0 =>
        LET frees == {i \in 1..Len(free_cursor_requests) :
                        free_cursor_requests[i] = customs[c].cursor}
        IN  Cardinality(frees) = IF customs[c].strong >= 1 THEN 0 ELSE 1

\* A custom cursor was cloned twice and all three references are dropped.
C4_Witness ==
    \E c \in CustomIds :
      /\ customs[c].cursor # 0
      /\ customs[c].peak = 3
      /\ customs[c].strong = 0
      /\ free_cursor_requests # <<>>

\* C5: a caller reads the cache or realizes a cursor only while it holds the
\* lock, no two callers are in that section at once, and over all callers a
\* selector is realized at most once and resolves to one handle.
C5_SerializedByLock ==
    /\ \A t \in Threads : pc[t] \in {"locked", "realizing"} => lock_holder = t
    /\ \A t1, t2 \in Threads :
         (t1 # t2 /\ pc[t1] \in {"locked", "realizing"}) => pc[t2] \notin {"locked", "realizing"}
    /\ \A s \in Selectors : get_calls[s] <= 1 /\ Cardinality(obtained[s]) <= 1
    /\ \A t1, t2 \in Threads :
         (pc[t1] = "update" /\ pc[t2] = "update" /\ sel[t1] = sel[t2]) => cur[t1] = cur[t2]

\* One caller realizes a cursor under the lock while another one, past the
\* lock, is applying its cursor.
C5_Witness ==
    \E t1, t2 \in Threads : t1 # t2 /\ pc[t1] = "realizing" /\ pc[t2] = "update"

\* C6: for a named selector get_cursor looks the names up in the order
\* canonical name, alternates in list order, up to and including the first
\* name whose lookup succeeds, and returns that lookup's handle.
C6_NamedFallbackOrder ==
    (call.fn = "get_cursor" /\ call.cursor # NoneSel /\ call.tenv.handle_ok) =>
      LET names == <<name(call.cursor)>> \o alt_names(call.cursor)
          lookup == call.tenv.lookup
          hits == {i \in 1..Len(names) : lookup[names[i]].tag = "Ok"}
      IN  IF hits = {}
          THEN call.out.attempts = names /\ call.out.res.tag = "Err"
          ELSE LET first == CHOOSE i \in hits : \A j \in hits : i <= j
               IN  /\ call.out.attempts = SubSeq(names, 1, first)
                   /\ call.out.res = Ok(lookup[names[first]].handle)

\* The canonical name fails, the first alternate succeeds, and the second
\* alternate, which would succeed with another handle, is not tried.
C6_Witness ==
    /\ call.fn = "get_cursor"
    /\ call.cursor = 3
    /\ call.tenv.handle_ok
    /\ call.tenv.lookup[3].tag = "Err"
    /\ call.tenv.lookup[2] = Ok(1)
    /\ call.tenv.lookup[1] = Ok(2)
    /\ call.out.attempts = <<3, 2>>
    /\ call.out.res = Ok(1)

\* C7: for the absent selector get_cursor builds no theme handle and looks no
\* name up; it invokes the image builder once, with a 1x1 image of depth 32,
\* hotspot (0,0) and one all-zero pixel, and returns the builder's result.
C7_EmptyCursorPath ==
    (call.fn = "get_cursor" /\ call.cursor = NoneSel) =>
      /\ ~call.out.handle_new
      /\ call.out.attempts = <<>>
      /\ Len(call.out.builds) = 1
      /\ call.out.builds[1].call =
           [width |-> 1, height |-> 1, depth |-> 32, hotspot_x |-> 0, hotspot_y |-> 0,
            image |-> <<0, 0, 0, 0>>]
      /\ call.out.res = call.out.builds[1].res

\* The absent selector was resolved and the builder succeeded.
C7_Witness ==
    /\ call.fn = "get_cursor"
    /\ call.cursor = NoneSel
    /\ call.out.res.tag = "Ok"

\* C8 as stated: the cache mapping is injective.
C8_Injective ==
    \A a, b \in DOMAIN cursor_cache : a # b => cursor_cache[a] # cursor_cache[b]

\* C8, amended: the cache holds for every resolved selector the handle its own
\* realization returned, so two selectors have different cached handles
\* whenever their realizations returned different handles.
C8_CacheHoldsRealized ==
    /\ DOMAIN cursor_cache = DOMAIN realized
    /\ \A s \in DOMAIN cursor_cache : cursor_cache[s] = realized[s]
    /\ \A a, b \in DOMAIN cursor_cache :
         realized[a] # realized[b] => cursor_cache[a] # cursor_cache[b]

\* Two icons are resolved, to different handles.
C8_Witness ==
    \E a, b \in Icons :
      /\ a # b
      /\ a \in DOMAIN cursor_cache /\ b \in DOMAIN cursor_cache
      /\ cursor_cache[a] # cursor_cache[b]

\* C9: when change_window_attributes was sent, the flush is issued whatever
\* the server answers to it; the call succeeds when the flush succeeds, and a
\* failed flush is an error that aborts set_cursor_icon / set_custom_cursor.
C9_ApplicatorErrorPolicy ==
    (call.fn \in {"set_cursor_icon", "set_custom_cursor"} /\ ~call.out.env.send_fail) =>
      /\ call.out.calls = <<"change_window_attributes", "flush">>
      /\ ~call.out.env.flush_fail => (call.out.tag = "Ok" /\ ~call.out.aborted)
      /\ call.out.env.flush_fail => (call.out.tag = "Err" /\ call.out.aborted)

\* The server rejected the attribute change, the flush went through, and the
\* call succeeded.
C9_Witness ==
    /\ call.fn = "set_custom_cursor"
    /\ ~call.out.env.send_fail
    /\ call.out.env.attr_error
    /\ ~call.out.env.flush_fail
    /\ call.out.tag = "Ok"

\* C10: the image CustomCursor::new hands to the builder (and the builder
\* uploads) has the length of the input and holds B,G,R,A for every input
\* pixel R,G,B,A.
C10_ByteOrderTransform ==
    call.fn = "CustomCursor::new" =>
      /\ Len(call.out.builds) = 1
      /\ LET rgba == call.source.rgba
             image == call.out.builds[1].call.image
             requests == call.out.builds[1].requests
         IN  /\ Len(image) = Len(rgba)
             /\ \A p \in 0..((Len(rgba) \div 4) - 1) :
                  /\ image[4 * p + 1] = rgba[4 * p + 3]
                  /\ image[4 * p + 2] = rgba[4 * p + 2]
                  /\ image[4 * p + 3] = rgba[4 * p + 1]
                  /\ image[4 * p + 4] = rgba[4 * p + 4]
             /\ \A i \in 1..Len(requests) :
                  requests[i].op = "put_image" =>
                    requests[i].args = <<call.source.width, call.source.height, 32>> \o image

\* Two pixels whose red and blue bytes differ went through and were uploaded.
C10_Witness ==
    /\ call.fn = "CustomCursor::new"
    /\ call.source.rgba = <<1, 0, 0, 1, 0, 1, 1, 0>>
    /\ call.out.builds[1].call.image = <<0, 0, 1, 1, 1, 1, 0, 0>>
    /\ call.out.res.tag = "Ok"

\* C11: when the picture stage fails the builder returns an error after the
\* gc and the pixmap were freed once each; when the cursor stage fails, after
\* the gc, the pixmap and the picture were freed once each; nothing is freed
\* twice.
C11_RollbackOnPartialFailure ==
    call.fn = "create_cursor_from_image" =>
      LET fail == call.env.fail
          rejected == call.env.rejected
          found == \E i \in 1..Len(call.env.formats) : call.env.formats[i] = Argb32Format
          reqs == call.out.requests
          n(op, id) == Cardinality({i \in 1..Len(reqs) : reqs[i].op = op /\ reqs[i].id = id})
          frees == {i \in 1..Len(reqs) :
                      reqs[i].op \in {"free_pixmap", "free_gc", "render_free_picture"}}
          picture_failed ==
            \/ fail = "generate_id(picture)"
            \/ found /\ fail \in {"render_create_picture", "check(picture)"}
            \/ /\ found /\ "render_create_picture" \in rejected
               /\ fail \in {"none", "generate_id(cursor)", "render_create_cursor",
                            "check(cursor)"}
          cursor_failed ==
            /\ found /\ "render_create_picture" \notin rejected
            /\ \/ fail \in {"generate_id(cursor)", "render_create_cursor", "check(cursor)"}
               \/ fail = "none" /\ "render_create_cursor" \in rejected
      IN  /\ picture_failed =>
               /\ call.out.res.tag = "Err"
               /\ n("free_pixmap", FirstId) = 1
               /\ n("free_gc", FirstId + 1) = 1
               /\ Cardinality(frees) = 2
          /\ cursor_failed =>
               /\ call.out.res.tag = "Err"
               /\ n("free_pixmap", FirstId) = 1
               /\ n("free_gc", FirstId + 1) = 1
               /\ n("render_free_picture", FirstId + 2) = 1
               /\ Cardinality(frees) = 3

\* The server refused the cursor and the builder returned its error.
C11_Witness ==
    /\ call.fn = "create_cursor_from_image"
    /\ call.env.fail = "none"
    /\ call.env.rejected = {"render_create_cursor"}
    /\ call.out.res = Err("X11Error")
    /\ Len(call.out.requests) > 5

\* C12 as stated: whenever the builder returns an error, the resources are
\* freed in the reverse of the order they were allocated in (the ids grow in
\* allocation order, so the freed ids fall).
C12_ReverseOrderRelease ==
    (call.fn = "create_cursor_from_image" /\ call.out.res.tag = "Err") =>
      LET reqs == call.out.requests
          frees == {i \in 1..Len(reqs) :
                      reqs[i].op \in {"free_pixmap", "free_gc", "render_free_picture"}}
      IN  \A i, j \in frees : i < j => reqs[i].id > reqs[j].id

\* C12, amended: up to the picture stage the frees come in reverse allocation
\* order (gc, then pixmap); when the cursor stage fails the order is gc,
\* pixmap, picture, the picture last.
C12_ReleaseOrder ==
    (call.fn = "create_cursor_from_image" /\ call.out.res.tag = "Err") =>
      LET reqs == call.out.requests
          fail == call.env.fail
          freed == [i \in 1..Len(reqs) |-> reqs[i].id]
          is_free(i) == reqs[i].op \in {"free_pixmap", "free_gc", "render_free_picture"}
          frees == {i \in 1..Len(reqs) : is_free(i)}
          pixmap == FirstId
          gc == FirstId + 1
          picture == FirstId + 2
          in_order(ids) ==
            /\ Cardinality(frees) = Len(ids)
            /\ \A k \in 1..Len(ids) :
                 \E i \in frees : freed[i] = ids[k]
                                  /\ Cardinality({j \in frees : j < i}) = k - 1
      IN  IF fail \in {"generate_id(pixmap)", "create_pixmap"} THEN in_order(<<>>)
          ELSE IF fail \in {"generate_id(gc)", "create_gc"} THEN in_order(<<pixmap>>)
          ELSE IF /\ "render_create_picture" \notin call.env.rejected
                  /\ fail \in {"none", "generate_id(cursor)", "render_create_cursor",
                               "check(cursor)"}
          THEN in_order(<<gc, pixmap, picture>>)
          ELSE in_order(<<gc, pixmap>>)

\* The cursor stage failed after three resources were freed.
C12_Witness ==
    /\ call.fn = "create_cursor_from_image"
    /\ call.env.fail = "check(cursor)"
    /\ call.out.res.tag = "Err"
    /\ Cardinality({i \in 1..Len(call.out.requests) :
                      call.out.requests[i].op
                        \in {"free_pixmap", "free_gc", "render_free_picture"}}) = 3

\* C13 as stated: a protocol error answered to any create or upload request
\* the builder issued keeps it from returning a cursor handle.
C13_ProtocolErrorsSurfaced ==
    call.fn = "create_cursor_from_image" =>
      \A i \in 1..Len(call.out.requests) :
        call.out.requests[i].op \in call.env.rejected => call.out.res.tag # "Ok"

\* C13, amended: a protocol error answered to render_create_picture or
\* render_create_cursor makes the builder return that error; one answered to
\* create_pixmap, create_gc or put_image is dropped, so the builder returns a
\* handle exactly when nothing else failed; no request is issued twice.
C13_CheckedErrorsSurfaced ==
    call.fn = "create_cursor_from_image" =>
      LET reqs == call.out.requests
          rejected == call.env.rejected
          found == \E i \in 1..Len(call.env.formats) : call.env.formats[i] = Argb32Format
      IN  /\ \A i \in 1..Len(reqs) :
               (reqs[i].op \in {"render_create_picture", "render_create_cursor"}
                /\ reqs[i].op \in rejected
                /\ call.env.fail \notin {"check(picture)", "check(cursor)"})
                 => call.out.res = Err("X11Error")
          /\ call.out.res.tag = "Ok" <=>
               /\ call.env.fail = "none"
               /\ found
               /\ "render_create_picture" \notin rejected
               /\ "render_create_cursor" \notin rejected
          /\ \A i, j \in 1..Len(reqs) : (i # j /\ reqs[i].op \in RequestOps) => reqs[i] # reqs[j]

\* The server refused put_image and render_create_cursor; the builder
\* returned the cursor's error.
C13_Witness ==
    /\ call.fn = "create_cursor_from_image"
    /\ call.env.fail = "none"
    /\ call.env.rejected = {"put_image", "render_create_cursor"}
    /\ call.out.res = Err("X11Error")

\* C14: on success the pixmap, the gc and the picture were freed exactly once
\* each, the gc right after put_image and before render_create_picture, and
\* nothing was freed under the id of the returned cursor.
C14_OnlyCursorOutlives ==
    (call.fn = "create_cursor_from_image" /\ call.out.res.tag = "Ok") =>
      LET reqs == call.out.requests
          at(op, id) == {i \in 1..Len(reqs) : reqs[i].op = op /\ reqs[i].id = id}
          frees == {i \in 1..Len(reqs) :
                      reqs[i].op \in {"free_pixmap", "free_gc", "render_free_picture",
                                      "free_cursor"}}
      IN  /\ Cardinality(at("free_pixmap", FirstId)) = 1
          /\ Cardinality(at("free_gc", FirstId + 1)) = 1
          /\ Cardinality(at("render_free_picture", FirstId + 2)) = 1
          /\ Cardinality(frees) = 3
          /\ \A i \in frees : reqs[i].id # call.out.res.handle
          /\ \A i \in at("put_image", FirstId) : (i + 1) \in at("free_gc", FirstId + 1)
          /\ \A i \in at("free_gc", FirstId + 1), j \in at("render_create_picture", FirstId + 2) :
               i < j

\* A two-pixel image of depth 32 was built.
C14_Witness ==
    /\ call.fn = "create_cursor_from_image"
    /\ call.in.width = 2 /\ call.in.depth = 32
    /\ call.out.res = Ok(FirstId + 3)

\* C15 as stated: before a later request is issued, the reply to every
\* earlier create or upload request has been waited for.
C15_IssuedAndWaitedInOrder ==
    call.fn = "create_cursor_from_image" =>
      LET reqs == call.out.requests
      IN  \A i, j \in 1..Len(reqs) :
            (i < j /\ reqs[i].op \in RequestOps /\ reqs[j].op \in RequestOps) =>
              \E k \in (i + 1)..(j - 1) : reqs[k].op = "check" /\ reqs[k].id = reqs[i].id

\* C15, amended: the requests are issued in the order create_pixmap,
\* create_gc, put_image, render_create_picture, render_create_cursor; the
\* replies to render_create_picture and render_create_cursor are waited for
\* right after each is issued, the replies to the other three never.
C15_IssuedInOrder ==
    call.fn = "create_cursor_from_image" =>
      LET reqs == call.out.requests
          order == <<"create_pixmap", "create_gc", "put_image", "render_create_picture",
                     "render_create_cursor">>
          staged == {i \in 1..Len(reqs) : reqs[i].op \in RequestOps}
          rank(i) == Cardinality({j \in staged : j <= i})
      IN  /\ \A i \in staged : reqs[i].op = order[rank(i)]
          /\ \A i \in staged :
               reqs[i].op \in {"render_create_picture", "render_create_cursor"} =>
                 (i < Len(reqs) /\ reqs[i + 1].op = "check" /\ reqs[i + 1].id = reqs[i].id)
          /\ \A k \in 1..Len(reqs) :
               reqs[k].op = "check" =>
                 (k > 1 /\ reqs[k - 1].op \in {"render_create_picture", "render_create_cursor"})

\* All five requests were issued and the cursor returned.
C15_Witness ==
    /\ call.fn = "create_cursor_from_image"
    /\ call.out.res.tag = "Ok"
    /\ Cardinality({i \in 1..Len(call.out.requests) :
                      call.out.requests[i].op \in RequestOps}) = 5

\* C19: without an ARGB32 format the builder never issues render_create_picture
\* or render_create_cursor and returns no handle; when it aborts for the
\* missing format it has issued create_pixmap, create_gc, put_image, free_gc
\* and, once, free_pixmap, in this order.
C19_FormatAbortCleansUp ==
    (/\ call.fn = "create_cursor_from_image"
     /\ \A i \in 1..Len(call.env.formats) : call.env.formats[i] # Argb32Format) =>
      LET reqs == call.out.requests
      IN  /\ call.out.res.tag # "Ok"
          /\ \A i \in 1..Len(reqs) :
               reqs[i].op \notin {"render_create_picture", "render_create_cursor"}
          /\ call.env.fail \in {"none", "render_create_picture", "check(picture)",
                                "generate_id(cursor)", "render_create_cursor",
                                "check(cursor)"}
               => /\ call.out.res.tag = "Panic"
                  /\ [i \in 1..Len(reqs) |-> reqs[i].op] =
                       <<"create_pixmap", "create_gc", "put_image", "free_gc", "free_pixmap">>
                  /\ reqs[5].id = reqs[1].id
          /\ call.out.res.tag = "Panic" => Len(reqs) = 5

\* The builder aborted for the missing format on a healthy connection.
C19_Witness ==
    /\ call.fn = "create_cursor_from_image"
    /\ call.env.fail = "none"
    /\ call.env.formats = <<Rgb24Format>>
    /\ call.out.res.tag = "Panic"

\* C16: when the lookups of the canonical name and of every alternate all
\* fail, get_cursor returns the error of the last name tried: the last
\* alternate, or the canonical name when there is no alternate.
C16_LastFailureWins ==
    (/\ call.fn = "get_cursor" /\ call.cursor # NoneSel /\ call.tenv.handle_ok
     /\ \A n \in NamesOf(call.cursor) : call.tenv.lookup[n].tag = "Err") =>
      LET alts == alt_names(call.cursor)
          last == IF alts = <<>> THEN name(call.cursor) ELSE alts[Len(alts)]
      IN  /\ call.out.res = Err(call.tenv.lookup[last].err)
          /\ call.out.attempts # <<>>
          /\ call.out.attempts[Len(call.out.attempts)] = last

\* Three names fail; the last one fails with another error than the first two.
C16_Witness ==
    /\ call.fn = "get_cursor"
    /\ call.cursor = 3
    /\ call.tenv.handle_ok
    /\ call.tenv.lookup[3] = Err("ConnectionError")
    /\ call.tenv.lookup[2] = Err("ConnectionError")
    /\ call.tenv.lookup[1] = Err("X11Error")
    /\ call.out.res = Err("X11Error")

\* C17: for a list with exactly one format of type direct, depth 32, shifts
\* 16/8/0/24 and four masks 0xFF, find_argb32_format returns the id of that
\* format, wherever it stands; for a list with no such format it finds none
\* (its expect() aborts).
C17_FormatSelection ==
    call.fn = "find_argb32_format" =>
      LET formats == call.formats
          matching == {i \in 1..Len(formats) :
                         /\ formats[i].type = "DIRECT"
                         /\ formats[i].depth = 32
                         /\ formats[i].direct.red_shift = 16
                         /\ formats[i].direct.green_shift = 8
                         /\ formats[i].direct.blue_shift = 0
                         /\ formats[i].direct.alpha_shift = 24
                         /\ formats[i].direct.red_mask = 255
                         /\ formats[i].direct.green_mask = 255
                         /\ formats[i].direct.blue_mask = 255
                         /\ formats[i].direct.alpha_mask = 255}
      IN  /\ Cardinality(matching) = 1 =>
               /\ call.out.found
               /\ \A i \in matching : call.out.id = formats[i].id
          /\ matching = {} => ~call.out.found

\* The ARGB32 format stands last, behind BGRA32 and XRGB32, and is returned.
C17_Witness ==
    /\ call.fn = "find_argb32_format"
    /\ Len(call.formats) = 3
    /\ call.formats[1].direct.red_shift = 0
    /\ call.formats[2].direct.alpha_mask = 0
    /\ call.formats[3].direct = DirectFormat(16, 8, 0, 24, 255)
    /\ call.formats[3].type = "DIRECT"
    /\ call.out = [found |-> TRUE, id |-> call.formats[3].id]

\* C18: no free_cursor request was ever issued for a handle held in the
\* cursor cache; every free_cursor request is for the handle of a custom
\* cursor whose last clone was dropped; and no step removes or overwrites an
\* entry of the cache.
C18_CachedHandlesNeverFreed ==
    /\ [](/\ \A k \in DOMAIN cursor_cache, i \in 1..Len(free_cursor_requests) :
               free_cursor_requests[i] # cursor_cache[k]
          /\ \A i \in 1..Len(free_cursor_requests) :
               \E c \in CustomIds : /\ customs[c].cursor = free_cursor_requests[i]
                                    /\ customs[c].strong = 0)
    /\ [][\A k \in DOMAIN cursor_cache :
            k \in DOMAIN cursor_cache' /\ cursor_cache'[k] = cursor_cache[k]]_vars

\* Two selectors are cached, one of them with a built cursor, and the custom
\* cursor's handle was freed.
C18_Witness ==
    /\ DOMAIN cursor_cache = SharedSelectors
    /\ cursor_cache[NoneSel] \in GeneratedIds
    /\ Len(free_cursor_requests) = 1

\* C20: a get_cursor that passed the construction of the theme handle never
\* aborts in its final unwrap: when it returns no handle, the canonical
\* name was looked up first and failed, and the result is an error; also for
\* a selector without alternate names.
C20_FinalUnwrapCannotFail ==
    (call.fn = "get_cursor" /\ call.cursor # NoneSel /\ call.tenv.handle_ok) =>
      /\ call.out.res.tag # "Panic"
      /\ call.out.res.tag # "Ok" =>
           /\ Len(call.out.attempts) >= 1
           /\ call.out.attempts[1] = name(call.cursor)
           /\ call.tenv.lookup[call.out.attempts[1]].tag = "Err"
           /\ call.out.res.tag = "Err"

\* The selector without alternates failed after its one lookup.
C20_Witness ==
    /\ call.fn = "get_cursor"
    /\ call.cursor = 1
    /\ call.tenv.handle_ok
    /\ call.out.attempts = <<1>>
    /\ call.out.res = Err("X11Error")

====
